---- MODULE Spec2Model ----
(***************************************************************************)
(* A model of the Reimagine clinic desktop application                     *)
(* (src/Dermatologist_billing.py): the appointment store with its          *)
(* book / view / search / delete / edit handlers, the treatment catalog,   *)
(* and the bill session (select, price override, generate, print, save,    *)
(* reset).                                                                 *)
(*                                                                         *)
(* Text is modelled as a sequence of one-character strings, so that        *)
(* strip(), lower(), substring tests, the lexicographic order used by      *)
(* sort() and the date parser strptime() are computed and not assumed.     *)
(*                                                                         *)
(* Every handler runs to completion before the next one starts (one Tk     *)
(* event loop), so a handler is one action.  The variable `last` records   *)
(* what the last handler was given and which dialog it showed.             *)
(***************************************************************************)
EXTENDS Integers, Sequences, FiniteSets, TLC

VARIABLES
    apptFile,              \* appointments.json: [kind, items]
    viewOpen,              \* the "Upcoming Appointments" popup exists
    upcoming,              \* view_appointments' local list `upcoming`
    search_var,            \* the popup's search entry
    listbox,               \* rows shown by the popup (populate_list)
    treatmentsFile,        \* treatments.json: [kind, members]
    treatments_dict,       \* self.treatments_dict, in insertion order
    entry_name,            \* main window: name entry
    entry_phone,           \* main window: phone entry
    patient_type_var,      \* "Normal" | "VIP"
    vip_discount_var,      \* text of the discount entry (an IntVar)
    selected_treatments,   \* self.selected_treatments
    treatment_price_vars,  \* self.treatment_price_vars: name -> entry value
    text_prescription,     \* the prescription text box
    text_output,           \* the output text box
    patient,               \* self.patient
    generated,             \* history: a generate succeeded, no reset since
    other_appointments,    \* a second instance's save_appointment: the list
                           \* it has loaded and not yet written back
    other_treatments_dict, \* a second instance's self.treatments_dict
    last                   \* the last handler: inputs, dialog shown, effects

apptVars == <<apptFile, viewOpen, upcoming, search_var, listbox>>

billVars == <<treatmentsFile, treatments_dict, entry_name, entry_phone,
              patient_type_var, vip_discount_var, selected_treatments,
              treatment_price_vars, text_prescription, text_output, patient,
              generated>>

otherVars == <<other_appointments, other_treatments_dict>>

vars == <<apptVars, billVars, otherVars, last>>

-----------------------------------------------------------------------------
(* Bounds of the model *)

\* the most appointment records the store holds
MaxAppts == 2

\* the most entries the catalog holds
MaxTreatments == 2

-----------------------------------------------------------------------------
(* Text: str.strip, str.lower, `in`, and the order of str *)

RECURSIVE strip_left(_)
strip_left(s) ==
    IF s # <<>> /\ Head(s) = " " THEN strip_left(Tail(s)) ELSE s

RECURSIVE strip_right(_)
strip_right(s) ==
    IF s # <<>> /\ s[Len(s)] = " "
    THEN strip_right(SubSeq(s, 1, Len(s) - 1))
    ELSE s

strip(s) == strip_right(strip_left(s))

lower_char(c) ==
    CASE c = "A" -> "a"
      [] c = "B" -> "b"
      [] c = "N" -> "n"
      [] c = "O" -> "o"
      [] OTHER -> c

lower(s) == [i \in 1..Len(s) |-> lower_char(s[i])]

\* q in s (Python's substring test; the empty string is in every string)
str_in(q, s) ==
    \E i \in 0..(Len(s) - Len(q)) : SubSeq(s, i + 1, i + Len(q)) = q

\* code points of the characters the model uses
ord(c) ==
    CASE c = " " -> 32
      [] c = "-" -> 45
      [] c = "0" -> 48
      [] c = "1" -> 49
      [] c = "2" -> 50
      [] c = "3" -> 51
      [] c = "4" -> 52
      [] c = "5" -> 53
      [] c = "6" -> 54
      [] c = "7" -> 55
      [] c = "8" -> 56
      [] c = "9" -> 57
      [] c = "A" -> 65
      [] c = "B" -> 66
      [] c = "N" -> 78
      [] c = "O" -> 79
      [] c = "a" -> 97
      [] c = "b" -> 98
      [] c = "n" -> 110
      [] c = "o" -> 111
      [] OTHER -> 120

\* a <= b in Python's order of str
RECURSIVE str_le(_, _)
str_le(a, b) ==
    IF a = <<>> THEN TRUE
    ELSE IF b = <<>> THEN FALSE
    ELSE IF Head(a) = Head(b) THEN str_le(Tail(a), Tail(b))
    ELSE ord(Head(a)) < ord(Head(b))

-----------------------------------------------------------------------------
(* Dates: datetime.strptime(s, "%Y-%m-%d").date() and the order of date *)

Digits == {"0", "1", "2", "3", "4", "5", "6", "7", "8", "9"}

digit(c) == ord(c) - 48

\* the value a ValueError stands for
NoDate == <<0, 0, 0>>

leap(y) == (y % 4 = 0 /\ y % 100 # 0) \/ y % 400 = 0

days_in_month(y, m) ==
    IF m = 2 THEN (IF leap(y) THEN 29 ELSE 28)
    ELSE IF m \in {4, 6, 9, 11} THEN 30
    ELSE 31

\* %m is the pattern 1[0-2]|0[1-9]|[1-9]; the pattern "-" follows it.
\* The number of characters it takes at position 6, or 0 for no match.
month_len(s) ==
    IF Len(s) >= 8 /\ s[8] = "-"
       /\ (   (s[6] = "1" /\ s[7] \in {"0", "1", "2"})
           \/ (s[6] = "0" /\ s[7] \in Digits \ {"0"}))
    THEN 2
    ELSE IF Len(s) >= 7 /\ s[6] \in Digits \ {"0"} /\ s[7] = "-"
    THEN 1
    ELSE 0

\* %d is the pattern 3[0-1]|[1-2]\d|0[1-9]|[1-9]| [1-9], tried in this
\* order on the text r left after the second "-".
day_len(r) ==
    IF Len(r) >= 2
       /\ (   (r[1] = "3" /\ r[2] \in {"0", "1"})
           \/ (r[1] \in {"1", "2"} /\ r[2] \in Digits)
           \/ (r[1] = "0" /\ r[2] \in Digits \ {"0"}))
    THEN 2
    ELSE IF Len(r) >= 1 /\ r[1] \in Digits \ {"0"}
    THEN 1
    ELSE IF Len(r) >= 2 /\ r[1] = " " /\ r[2] \in Digits \ {"0"}
    THEN 2
    ELSE 0

number(s) ==
    IF Len(s) = 1 THEN digit(s[1])
    ELSE IF s[1] = " " THEN digit(s[2])
    ELSE 10 * digit(s[1]) + digit(s[2])

\* The date s parses to, or NoDate where strptime raises ValueError: no
\* match of the pattern, text left over after the match, year 0, or a day
\* the month does not have.
parse_date(s) ==
    IF ~(Len(s) >= 5 /\ (\A i \in 1..4 : s[i] \in Digits) /\ s[5] = "-")
    THEN NoDate
    ELSE LET ml == month_len(s)
             r  == SubSeq(s, 7 + ml, Len(s))
             dl == day_len(r)
         IN  IF ml = 0 \/ dl = 0 \/ Len(r) # dl THEN NoDate
             ELSE LET y == 1000 * digit(s[1]) + 100 * digit(s[2])
                           + 10 * digit(s[3]) + digit(s[4])
                      m == number(SubSeq(s, 6, 5 + ml))
                      d == number(r)
                  IN  IF y < 1 \/ d > days_in_month(y, m) THEN NoDate
                      ELSE <<y, m, d>>

\* The date texts the user types in this model
\* (yesterday; the last day of last year; today, written without the
\* leading zero of the day; a later day; a month the calendar does not have)
DatePast     == <<"2", "0", "2", "6", "-", "1", "1", "-", "0", "1">>
DateLastYear == <<"2", "0", "2", "5", "-", "1", "2", "-", "3", "1">>
DateToday    == <<"2", "0", "2", "6", "-", "1", "1", "-", "2">>
DateTenth    == <<"2", "0", "2", "6", "-", "1", "1", "-", "1", "0">>
DateInvalid  == <<"2", "0", "2", "6", "-", "1", "3", "-", "0", "1">>

DateTexts == {DatePast, DateLastYear, DateToday, DateTenth, DateInvalid}

\* what parse_date gives for each of them, computed once
ParsedDateTexts == [s \in DateTexts |-> parse_date(s)]

\* datetime.strptime(s, "%Y-%m-%d").date()
strptime(s) ==
    IF s \in DateTexts THEN ParsedDateTexts[s] ELSE parse_date(s)

\* a comparison of the days of the month alone
date_lt_by_day(a, b) == a[3] < b[3]

\* a < b for two dates
date_lt(a, b) ==
    \/ a[1] < b[1]
    \/ a[1] = b[1] /\ a[2] < b[2]
    \/ a[1] = b[1] /\ a[2] = b[2] /\ a[3] < b[3]

\* datetime.now().date(): the day the session runs on
Today == <<2026, 11, 2>>

-----------------------------------------------------------------------------
(* The appointment store: appointments.json *)

\* An appointment as the handlers hold it: a dict with these three keys.
Appt(n, p, d) == [name |-> n, phone |-> p, date |-> d]

NoAppt == Appt(<<>>, <<>>, <<>>)

\* dict.get(key) on a JSON object, a sequence of <<key, value>> members
member(obj, key) ==
    LET i == CHOOSE i \in 1..Len(obj) : obj[i][1] = key IN obj[i][2]

\* json.dump(appointments, f): a JSON array of objects, the keys in the
\* order the dicts were built with
json_dump(appointments) ==
    [kind  |-> "array",
     items |-> [i \in 1..Len(appointments) |->
                   << <<"name", appointments[i].name>>,
                      <<"phone", appointments[i].phone>>,
                      <<"date", appointments[i].date>> >>]]

MissingFile == [kind |-> "missing", items |-> <<>>]

\* a file json.load raises on
CorruptFile == [kind |-> "corrupt", items |-> <<>>]

\* load_appointments(): the list in the file, [] when the file is missing
\* or does not parse
load_appointments_of(file) ==
    IF file.kind = "array"
    THEN [i \in 1..Len(file.items) |->
             Appt(member(file.items[i], "name"),
                  member(file.items[i], "phone"),
                  member(file.items[i], "date"))]
    ELSE <<>>

load_appointments == load_appointments_of(apptFile)

\* how a write of a file can end: written, or open() raised and the file
\* is as it was
IoOutcomes == {"ok", "failed"}

\* save_appointments(appointments): the file afterwards.  A failure is
\* reported in a dialog and swallowed.
save_appointments(appointments, io) ==
    IF io = "ok" THEN json_dump(appointments) ELSE apptFile

\* `appt_date >= today` of a stored record, False where strptime raises
is_upcoming(a) ==
    /\ strptime(a.date) # NoDate
    /\ ~date_lt(strptime(a.date), Today)

\* the position sorted() gives x in the sorted list s: after every element
\* whose key is <= x's key (the sort is stable)
RECURSIVE insert_by_date(_, _)
insert_by_date(s, x) ==
    IF s = <<>> THEN <<x>>
    ELSE IF str_le(Head(s).date, x.date)
    THEN <<Head(s)>> \o insert_by_date(Tail(s), x)
    ELSE <<x>> \o s

\* sorted(list, key=lambda x: x.get("date")): by the date STRING
RECURSIVE sort_by_date(_)
sort_by_date(list) ==
    IF list = <<>> THEN <<>>
    ELSE insert_by_date(sort_by_date(SubSeq(list, 1, Len(list) - 1)),
                        list[Len(list)])

\* the today-or-later records of the stored list, sorted
upcoming_of(appointments) ==
    sort_by_date(SelectSeq(appointments, is_upcoming))

\* q in appt["name"].lower() or q in appt["phone"]
matches(a, q) == str_in(q, lower(a.name)) \/ str_in(q, a.phone)

\* the comprehension [appt for appt in upcoming if ...]
filtered(list, q) == SelectSeq(list, LAMBDA a : matches(a, q))

\* search_appointments(): what the listbox shows for the search text
search_appointments(list, text) ==
    LET q == lower(strip(text))
    IN  IF q = <<>> THEN list ELSE filtered(list, q)

\* the list without any element equal to x
remove_all(list, x) == SelectSeq(list, LAMBDA a : a # x)

\* list.remove(x) / the loop `del saved[i]; break`: without the first
\* element equal to x
RECURSIVE remove_first(_, _)
remove_first(list, x) ==
    IF list = <<>> THEN <<>>
    ELSE IF Head(list) = x THEN Tail(list)
    ELSE <<Head(list)>> \o remove_first(Tail(list), x)

\* every record with the name of x replaced by x
replace_all_by_name(saved, x) ==
    [i \in 1..Len(saved) |-> IF saved[i].name = x.name THEN x ELSE saved[i]]

\* the loop of edit_selected: the first record with the same NAME is
\* replaced; with no such record the merged record is appended
RECURSIVE replace_first_by_name(_, _)
replace_first_by_name(saved, x) ==
    IF saved = <<>> THEN <<x>>
    ELSE IF Head(saved).name = x.name THEN <<x>> \o Tail(saved)
    ELSE <<Head(saved)>> \o replace_first_by_name(Tail(saved), x)

\* what `last` holds for an appointment handler: the handler, the dialog
\* it ended with, the row it acted on, the record it wrote, the date and
\* the phone it was given, the entries of the file that its write dropped
\* without the handler having removed them, and the outcome of its write
Did(op, msg, target, arg, date, io) ==
    [op |-> op, msg |-> msg, target |-> target, arg |-> arg,
     date |-> date, phone |-> <<>>, lost |-> <<>>, io |-> io]

-----------------------------------------------------------------------------
(* What the user can type into the appointment dialogs *)

\* the patients of the model, as <<name, phone>>: An is booked with the
\* phone 55 and can be edited to 5A, Bo is booked with 5A
StoredPatients ==
    {<<<<"A", "n">>, <<"5", "5">>>>,
     <<<<"A", "n">>, <<"5", "A">>>>,
     <<<<"B", "o">>, <<"5", "A">>>>}

\* what the booking popup is filled with, as <<name, phone, date>>: texts
\* it accepts today, and each kind of text it rejects (a blank name,
\* phone or date, a past date, an invalid date)
BookInputs ==
    {<<<<"A", "n">>, <<"5", "5">>, DateToday>>,
     <<<<"A", "n">>, <<"5", "5">>, DateTenth>>,
     <<<<" ", "B", "o">>, <<"5", "A">>, DateToday>>,
     <<<<" ", "B", "o">>, <<"5", "A">>, DateTenth>>}
    \cup {<<<<" ">>, <<"5", "5">>, DateToday>>,
          <<<<"A", "n">>, <<>>, DateToday>>,
          <<<<"A", "n">>, <<"5", "5">>, <<>>>>,
          <<<<"A", "n">>, <<"5", "5">>, DatePast>>,
          <<<<"A", "n">>, <<"5", "5">>, DateLastYear>>,
          <<<<"A", "n">>, <<"5", "5">>, DateInvalid>>}

\* the answers to the two dialogs of an edit, as <<date, phone>>; the
\* empty text is "keep" (or Cancel)
EditInputs ==
    ({<<>>, DateTenth} \X {<<>>, <<"5", "A">>})
    \cup {<<DatePast, <<>>>>, <<DateLastYear, <<>>>>, <<DateInvalid, <<>>>>}

\* texts of the search entry
SearchInputs == {<<" ">>, <<" ", "A">>, <<"5", "5">>}

\* the records a launch can find in the file: what was booked for today
\* or later, and a record of yesterday
StoredAppts ==
    {Appt(x[1], x[2], d) : x \in StoredPatients, d \in {DateToday, DateTenth}}
    \cup {Appt(<<"A", "n">>, <<"5", "5">>, DatePast)}

\* the lists of at most n stored records
RECURSIVE ApptLists(_)
ApptLists(n) ==
    IF n = 0 THEN {<<>>}
    ELSE ApptLists(n - 1)
         \cup {Append(l, a) : l \in {x \in ApptLists(n - 1) : Len(x) = n - 1},
                              a \in StoredAppts}

-----------------------------------------------------------------------------
(* Appointment handlers *)

\* book_appointment.save_appointment: the "Book" button of the booking popup
SaveAppointment(n, p, d, io) ==
    LET name     == strip(n)
        phone    == strip(p)
        date_str == strip(d)
        appointments == Append(load_appointments, Appt(name, phone, date_str))
    IN  /\ ~viewOpen
        /\ IF name = <<>> \/ phone = <<>> \/ date_str = <<>>
           THEN /\ last' = Did("book", "Please fill all fields.", NoAppt,
                               NoAppt, date_str, "none")
                /\ UNCHANGED apptFile
           ELSE IF strptime(date_str) = NoDate
           THEN /\ last' = Did("book", "Invalid date format. Use YYYY-MM-DD.",
                               NoAppt, NoAppt, date_str, "none")
                /\ UNCHANGED apptFile
           ELSE IF date_lt(strptime(date_str), Today)
           THEN /\ last' = Did("book",
                               "Appointment date cannot be in the past.",
                               NoAppt, NoAppt, date_str, "none")
                /\ UNCHANGED apptFile
           ELSE /\ Len(appointments) <= MaxAppts
                /\ apptFile' = save_appointments(appointments, io)
                /\ last' = Did("book", "Success", NoAppt,
                               Appt(name, phone, date_str), date_str, io)
        /\ UNCHANGED <<viewOpen, upcoming, search_var, listbox>>
        /\ UNCHANGED <<billVars, otherVars>>

\* view_appointments: the "View Appointments" button
ViewAppointments ==
    LET appointments == load_appointments
        shown        == upcoming_of(appointments)
    IN  /\ ~viewOpen
        /\ IF appointments = <<>>
           THEN /\ last' = Did("view", "No appointments found.", NoAppt,
                               NoAppt, <<>>, "none")
                /\ UNCHANGED <<viewOpen, upcoming, listbox>>
           ELSE IF shown = <<>>
           THEN /\ last' = Did("view", "No upcoming appointments.", NoAppt,
                               NoAppt, <<>>, "none")
                /\ UNCHANGED <<viewOpen, upcoming, listbox>>
           ELSE /\ viewOpen' = TRUE
                /\ upcoming' = shown
                /\ listbox' = shown
                /\ last' = Did("view", "Upcoming Appointments", NoAppt,
                               NoAppt, <<>>, "none")
        /\ UNCHANGED <<apptFile, search_var>>
        /\ UNCHANGED <<billVars, otherVars>>

\* search_appointments, as the trace of search_var: the user edits the
\* search entry
SearchAppointments(text) ==
    /\ viewOpen
    /\ search_var' = text
    /\ listbox' = search_appointments(upcoming, text)
    /\ last' = Did("search", "", NoAppt, NoAppt, <<>>, "none")
    /\ UNCHANGED <<apptFile, viewOpen, upcoming>>
    /\ UNCHANGED <<billVars, otherVars>>

\* view_appointments.delete_selected: "Delete Selected" with row `index`
\* selected (rows count from 1; 0 is no selection)
DeleteSelected(index, io) ==
    LET q            == lower(strip(search_var))
        current_list == filtered(upcoming, q)
    IN  /\ viewOpen
        /\ IF index = 0
           THEN /\ last' = Did("delete",
                               "Please select an appointment to delete.",
                               NoAppt, NoAppt, <<>>, "none")
                /\ UNCHANGED <<apptFile, upcoming, listbox>>
           ELSE IF index > Len(current_list)
           THEN /\ last' = Did("delete", "", NoAppt, NoAppt, <<>>, "none")
                /\ UNCHANGED <<apptFile, upcoming, listbox>>
           ELSE LET appt_to_delete == current_list[index]
                    saved == remove_first(load_appointments, appt_to_delete)
                    left  == remove_first(upcoming, appt_to_delete)
                IN  /\ apptFile' = save_appointments(saved, io)
                    /\ upcoming' = left
                    /\ listbox' = search_appointments(left, search_var)
                    /\ last' = Did("delete", "Deleted", appt_to_delete,
                                   IF saved = load_appointments THEN NoAppt
                                   ELSE appt_to_delete,
                                   <<>>, io)
        /\ UNCHANGED <<viewOpen, search_var>>
        /\ UNCHANGED <<billVars, otherVars>>

\* view_appointments.edit_selected: "Edit Selected" with row `index`
\* selected; new_date_str and new_phone are the answers to the two
\* askstring dialogs (the empty text also stands for Cancel)
EditSelected(index, new_date_str, new_phone, io) ==
    LET q            == lower(strip(search_var))
        current_list == filtered(upcoming, q)
    IN  /\ viewOpen
        /\ IF index = 0
           THEN /\ last' = Did("edit",
                               "Please select an appointment to edit.",
                               NoAppt, NoAppt, <<>>, "none")
                /\ UNCHANGED <<apptFile, upcoming, listbox>>
           ELSE IF index > Len(current_list)
           THEN /\ last' = Did("edit", "", NoAppt, NoAppt, <<>>,
                               "none")
                /\ UNCHANGED <<apptFile, upcoming, listbox>>
           ELSE LET appt_to_edit == current_list[index]
                IN  IF new_date_str # <<>> /\ strptime(new_date_str) = NoDate
                    THEN /\ last' = Did("edit",
                               "Please enter a valid date in YYYY-MM-DD format.",
                               appt_to_edit, NoAppt, new_date_str, "none")
                         /\ UNCHANGED <<apptFile, upcoming, listbox>>
                    ELSE IF new_date_str # <<>>
                            /\ date_lt(strptime(new_date_str), Today)
                    THEN /\ last' = Did("edit",
                               "Appointment date cannot be in the past.",
                               appt_to_edit, NoAppt, new_date_str, "none")
                         /\ UNCHANGED <<apptFile, upcoming, listbox>>
                    ELSE LET edited ==
                                 Appt(appt_to_edit.name,
                                      IF new_phone # <<>> THEN new_phone
                                      ELSE appt_to_edit.phone,
                                      IF new_date_str # <<>> THEN new_date_str
                                      ELSE appt_to_edit.date)
                             saved == replace_first_by_name(load_appointments,
                                                            edited)
                             file2 == save_appointments(saved, io)
                             new_upcoming ==
                                 upcoming_of(load_appointments_of(file2))
                         IN  /\ Len(saved) <= MaxAppts
                             /\ apptFile' = file2
                             /\ upcoming' = new_upcoming
                             /\ listbox' = search_appointments(new_upcoming,
                                                               search_var)
                             /\ last' = [Did("edit", "Updated", appt_to_edit,
                                             edited, new_date_str, io)
                                         EXCEPT !.phone = new_phone]
        /\ UNCHANGED <<viewOpen, search_var>>
        /\ UNCHANGED <<billVars, otherVars>>

\* popup.destroy: the "Close" button of the view
CloseView ==
    /\ viewOpen
    /\ viewOpen' = FALSE
    /\ upcoming' = <<>>
    /\ listbox' = <<>>
    /\ search_var' = <<>>
    /\ last' = Did("close", "", NoAppt, NoAppt, <<>>, "none")
    /\ UNCHANGED apptFile
    /\ UNCHANGED <<billVars, otherVars>>

\* the second instance holds no loaded list
NotLoaded == [loaded |-> FALSE, list |-> <<>>]

\* the second instance is not running
NotRunning == [running |-> FALSE, dict |-> <<>>]

\* Another running instance of the program, on the same appointments.json,
\* opens its own view and deletes the row showing the record `a`.
OtherInstanceDelete(a, io) ==
    LET theirs == load_appointments
    IN  /\ viewOpen
        /\ \E i \in 1..Len(upcoming_of(theirs)) : upcoming_of(theirs)[i] = a
        /\ apptFile' = save_appointments(remove_first(theirs, a), io)
        /\ last' = Did("other_delete", "Deleted", a, NoAppt, <<>>, io)
        /\ UNCHANGED <<viewOpen, upcoming, search_var, listbox>>
        /\ UNCHANGED <<billVars, otherVars>>

\* the records of the file `before` that the file `after` no longer holds
dropped_appts(before, after) ==
    LET kept == load_appointments_of(after)
    IN  SelectSeq(load_appointments_of(before),
                  LAMBDA a : \A i \in 1..Len(kept) : kept[i] # a)

\* save_appointment in the second instance, up to its load_appointments():
\* the popup's fields have passed the checks, the file is read
OtherInstanceLoad ==
    /\ ~other_appointments.loaded
    /\ other_appointments' = [loaded |-> TRUE, list |-> load_appointments]
    /\ last' = Did("other_load", "", NoAppt, NoAppt, <<>>, "none")
    /\ UNCHANGED <<apptVars, billVars, other_treatments_dict>>

\* save_appointment in the second instance, from its append on: the
\* record `a` joins the list it loaded, and the list is written
OtherInstanceSave(a, io) ==
    LET appointments == Append(other_appointments.list, a)
        file         == save_appointments(appointments, io)
    IN  /\ other_appointments.loaded
        /\ Len(appointments) <= MaxAppts
        /\ apptFile' = file
        /\ other_appointments' = NotLoaded
        /\ last' = [Did("other_book", "Success", NoAppt, a, a.date, io)
                       EXCEPT !.lost = dropped_appts(apptFile, file)]
        /\ UNCHANGED <<viewOpen, upcoming, search_var, listbox>>
        /\ UNCHANGED <<billVars, other_treatments_dict>>

-----------------------------------------------------------------------------
(* Entry fields bound to a tk.IntVar *)

\* the text of such an entry: either text IntVar.get() turns into the
\* integer `value`, or text on which IntVar.get() raises TclError
IntText(v) == [int |-> TRUE, value |-> v]

BadText == [int |-> FALSE, value |-> 0]

-----------------------------------------------------------------------------
(* The treatment catalog: self.treatments_dict and treatments.json *)

\* one item of the dict: name -> price
Entry(n, c) == [name |-> n, price |-> c]

\* the keys of a dict / the elements of a list
Keys(dict) == {dict[i].name : i \in 1..Len(dict)}

Elems(list) == {list[i] : i \in 1..Len(list)}

\* dict.get(name, default)
dict_get(dict, n, default) ==
    IF n \in Keys(dict)
    THEN dict[CHOOSE i \in 1..Len(dict) : dict[i].name = n].price
    ELSE default

\* del dict[name]
dict_del(dict, n) == SelectSeq(dict, LAMBDA e : e.name # n)

\* json.dump(self.treatments_dict, f): a JSON object, one member per item
json_dump_treatments(dict) ==
    [kind    |-> "object",
     members |-> [i \in 1..Len(dict) |-> <<dict[i].name, dict[i].price>>]]

MissingCatalog == [kind |-> "missing", members |-> <<>>]

CorruptCatalog == [kind |-> "corrupt", members |-> <<>>]

\* load_treatments(): {str(k): int(v)} of the file's object, {} when the
\* file is missing or does not parse
load_treatments_of(file) ==
    IF file.kind = "object"
    THEN [i \in 1..Len(file.members) |->
             Entry(file.members[i][1], file.members[i][2])]
    ELSE <<>>

\* the items of the catalog file `before` that the file `after` no longer
\* holds, other than those of the names `removed`
dropped(before, after, removed) ==
    SelectSeq(load_treatments_of(before),
              LAMBDA e : /\ e \notin Elems(load_treatments_of(after))
                         /\ e.name \notin Elems(removed))

\* a save that keeps what another instance has written: the dict, then
\* the items of the file under keys the dict does not hold
save_treatments_merged(dict, io) ==
    IF io = "ok"
    THEN json_dump_treatments(
             dict \o SelectSeq(load_treatments_of(treatmentsFile),
                               LAMBDA e : e.name \notin Keys(dict)))
    ELSE treatmentsFile

\* a save that writes the catalog as it was before the handler changed it
save_treatments_stale(dict, io) ==
    IF io = "ok" THEN json_dump_treatments(treatments_dict)
    ELSE treatmentsFile

\* save_treatments() of the dict `dict`: the file afterwards.  A failure
\* is reported in a dialog and swallowed.
save_treatments(dict, io) ==
    IF io = "ok" THEN json_dump_treatments(dict) ELSE treatmentsFile

DigitChars == <<"0", "1", "2", "3", "4", "5", "6", "7", "8", "9">>

\* str(n) for n >= 0
RECURSIVE itoa(_)
itoa(n) ==
    IF n < 10 THEN <<DigitChars[n + 1]>>
    ELSE itoa(n \div 10) \o <<DigitChars[(n % 10) + 1]>>

\* update_treatment_listbox: the rows f"{name} (Rs. {cost})"
treatment_listbox_of(dict) ==
    [i \in 1..Len(dict) |->
        dict[i].name \o <<" ", "(", "R", "s", ".", " ">>
                     \o itoa(dict[i].price) \o <<")">>]

\* treatment_str.split(" (")[0]: the text before the first " ("
RECURSIVE split_paren(_)
split_paren(s) ==
    IF Len(s) < 2 THEN s
    ELSE IF s[1] = " " /\ s[2] = "(" THEN <<>>
    ELSE <<Head(s)>> \o split_paren(Tail(s))

\* the loop of add_selected_treatments over the selected rows, in
\* listbox order (rows is the ascending list of selected row numbers)
RECURSIVE add_rows(_, _, _)
add_rows(selected, box, rows) ==
    IF rows = <<>> THEN selected
    ELSE LET treatment_name == split_paren(box[Head(rows)])
         IN  add_rows(IF treatment_name \in Elems(selected) THEN selected
                      ELSE Append(selected, treatment_name),
                      box, Tail(rows))

\* curselection(): the selected row numbers, ascending
RECURSIVE ascending(_)
ascending(S) ==
    IF S = {} THEN <<>>
    ELSE LET m == CHOOSE x \in S : \A y \in S : x <= y
         IN  <<m>> \o ascending(S \ {m})

\* price entries that are never cleared: one per key of the catalog
price_vars_of_catalog(selected, dict) ==
    [n \in Keys(dict) |-> IntText(dict_get(dict, n, 0))]

\* update_selected_treatments_display: one fresh IntVar per selected name,
\* holding the catalog price of the name, 0 when the name is no key
price_vars_of(selected, dict) ==
    [n \in Elems(selected) |-> IntText(dict_get(dict, n, 0))]

\* the loop of on_remove: every selected key leaves the dict and the
\* selection
RECURSIVE remove_keys(_, _)
remove_keys(dict, names) ==
    IF names = <<>> THEN dict
    ELSE remove_keys(dict_del(dict, Head(names)), Tail(names))

RECURSIVE remove_names(_, _)
remove_names(selected, names) ==
    IF names = <<>> THEN selected
    ELSE remove_names(remove_first(selected, Head(names)), Tail(names))

-----------------------------------------------------------------------------
(* Patient and its two texts *)

NoPatient ==
    [set |-> FALSE, name |-> <<>>, phone |-> <<>>, patient_type |-> "Normal",
     vip_discount |-> 0, treatments |-> <<>>, prescription |-> <<>>]

\* Patient(name, phone, patient_type, vip_discount)
Patient(n, p, t, d) ==
    [set |-> TRUE, name |-> n, phone |-> p, patient_type |-> t,
     vip_discount |-> d, treatments |-> <<>>, prescription |-> <<>>]

\* one line of the bill below the column header.  The amount of a
\* treatment line is in rupees; the amounts printed with two decimals
\* (Subtotal, VIP Discount, Total Bill) are in hundredths of a rupee.
Line(label, n, pct, amount) ==
    [label |-> label, name |-> n, pct |-> pct, amount |-> amount]

RECURSIVE sum_costs(_)
sum_costs(treatments) ==
    IF treatments = <<>> THEN 0
    ELSE Head(treatments).price + sum_costs(Tail(treatments))

\* a bill whose Total Bill is the sum less the percentage itself
get_bill_text_flat_discount(p) ==
    LET total    == sum_costs(p.treatments)
        discount == IF p.patient_type = "VIP" THEN 100 * p.vip_discount
                    ELSE 0
    IN  [i \in 1..Len(p.treatments) |->
            Line("treatment", p.treatments[i].name, 0, p.treatments[i].price)]
        \o (IF discount > 0
            THEN <<Line("Subtotal", <<>>, 0, total * 100),
                   Line("VIP Discount", <<>>, p.vip_discount, -discount)>>
            ELSE <<>>)
        \o <<Line("Total Bill", <<>>, 0, total * 100 - discount)>>

\* a bill that shows the two discount lines whenever the percentage is
\* above 0
get_bill_text_by_percentage(p) ==
    LET total    == sum_costs(p.treatments)
        discount == IF p.patient_type = "VIP" THEN total * p.vip_discount
                    ELSE 0
    IN  [i \in 1..Len(p.treatments) |->
            Line("treatment", p.treatments[i].name, 0, p.treatments[i].price)]
        \o (IF p.patient_type = "VIP" /\ p.vip_discount > 0
            THEN <<Line("Subtotal", <<>>, 0, total * 100),
                   Line("VIP Discount", <<>>, p.vip_discount, -discount)>>
            ELSE <<>>)
        \o <<Line("Total Bill", <<>>, 0, total * 100 - discount)>>

\* Patient.get_bill_text: the lines from the first treatment to Total Bill
get_bill_text(p) ==
    LET total    == sum_costs(p.treatments)
        \* discount = total * (vip_discount / 100), in hundredths
        discount == IF p.patient_type = "VIP" THEN total * p.vip_discount
                    ELSE 0
        total_after_discount ==
            IF p.patient_type = "VIP" THEN total * 100 - discount
            ELSE total * 100
    IN  [i \in 1..Len(p.treatments) |->
            Line("treatment", p.treatments[i].name, 0, p.treatments[i].price)]
        \o (IF discount > 0
            THEN <<Line("Subtotal", <<>>, 0, total * 100),
                   Line("VIP Discount", <<>>, p.vip_discount, -discount)>>
            ELSE <<>>)
        \o <<Line("Total Bill", <<>>, 0, total_after_discount)>>

\* Patient.get_prescription_text: the line below the header
get_prescription_text(p) ==
    IF p.prescription # <<>> THEN p.prescription
    ELSE <<"No prescription provided.">>

\* bill_text + "\n\n" + prescription_text
combined_text(p) ==
    [bill |-> get_bill_text(p), prescription |-> get_prescription_text(p)]

EmptyText == [bill |-> <<>>, prescription |-> <<>>]

\* re.match(r"^[+\d][\d\s\-+()]{5,}$", phone)
phone_ok(phone) ==
    /\ Len(phone) >= 6
    /\ phone[1] \in Digits \cup {"+"}
    /\ \A i \in 2..Len(phone) :
           phone[i] \in Digits \cup {" ", "-", "+", "(", ")"}

\* the loop of generate_bill_prescription that reads the price entries:
\* the treatments added before the first entry IntVar.get() raises on
RECURSIVE read_prices(_, _)
read_prices(selected, price_vars) ==
    IF selected = <<>> THEN <<>>
    ELSE IF ~price_vars[Head(selected)].int THEN <<>>
    ELSE <<Entry(Head(selected), price_vars[Head(selected)].value)>>
         \o read_prices(Tail(selected), price_vars)

\* what `last` holds for a handler of the main window
DidMain(op, msg, arg, io) ==
    [op |-> op, msg |-> msg, target |-> NoAppt, arg |-> arg, date |-> <<>>,
     phone |-> <<>>, lost |-> <<>>, io |-> io]

-----------------------------------------------------------------------------
(* What the user can type into the main window and its dialogs *)

NameL     == <<"L">>
NameP     == <<"P">>
NamePDeep == <<"P", " ", "(", "d", ")">>

TreatmentNames == {NameL, NameP, NamePDeep}

\* answers to "Enter new treatment name:" (the empty text also stands for
\* Cancel)
TreatmentNameInputs == {<<>>, <<" ">>, <<" ", "L">>, NameP, NamePDeep}

\* askinteger(..., minvalue=1) returns None on Cancel or an integer >= 1
NoPrice == [int |-> FALSE, value |-> 0]

PriceAnswers == {NoPrice, IntText(100), IntText(250)}

CatalogPrices == {100, 250}

\* the dicts of at most n items over the names and prices above
RECURSIVE CatalogDicts(_)
CatalogDicts(n) ==
    IF n = 0 THEN {<<>>}
    ELSE CatalogDicts(n - 1)
         \cup {Append(d, Entry(t, c)) :
                  d \in {x \in CatalogDicts(n - 1) : Len(x) = n - 1},
                  t \in TreatmentNames, c \in CatalogPrices}

UniqueKeys(dict) == Cardinality(Keys(dict)) = Len(dict)

\* texts of a price entry of a selected line: integers, and text that is
\* no integer
PriceInputs == {IntText(0), IntText(-300), BadText}

\* texts of the discount entry: integers, and text that is no integer
DiscountInputs == {IntText(0), IntText(10), IntText(101), BadText}

PatientNameInputs == {<<" ">>, <<"A", "n">>}

\* a phone the format check accepts and one it asks about
PatientPhoneInputs == {<<"5", "5", "5", "5", "5", "5">>, <<"5", "5">>}

PrescriptionInputs == {<<"r", "x">>}

\* how the write of the dated record file, or of the txt file, can end
WriteOutcomes == {"ok", "failed"}

\* how the hand-off to the print command can end
PrintOutcomes == {"Document sent to printer", "Print Error"}

-----------------------------------------------------------------------------
(* Handlers of the main window *)

\* the user edits the name entry
TypeName(text) ==
    /\ entry_name' = text
    /\ last' = DidMain("type", "", <<>>, "none")
    /\ UNCHANGED <<treatmentsFile, treatments_dict, entry_phone,
                   patient_type_var, vip_discount_var, selected_treatments,
                   treatment_price_vars, text_prescription, text_output,
                   patient, generated>>
    /\ UNCHANGED <<apptVars, otherVars>>

\* the user edits the phone entry
TypePhone(text) ==
    /\ entry_phone' = text
    /\ last' = DidMain("type", "", <<>>, "none")
    /\ UNCHANGED <<treatmentsFile, treatments_dict, entry_name,
                   patient_type_var, vip_discount_var, selected_treatments,
                   treatment_price_vars, text_prescription, text_output,
                   patient, generated>>
    /\ UNCHANGED <<apptVars, otherVars>>

\* the user picks a patient type radio button
ChoosePatientType(t) ==
    /\ patient_type_var' = t
    /\ last' = DidMain("type", "", <<>>, "none")
    /\ UNCHANGED <<treatmentsFile, treatments_dict, entry_name, entry_phone,
                   vip_discount_var, selected_treatments,
                   treatment_price_vars, text_prescription, text_output,
                   patient, generated>>
    /\ UNCHANGED <<apptVars, otherVars>>

\* the user edits the discount entry
TypeDiscount(text) ==
    /\ vip_discount_var' = text
    /\ last' = DidMain("type", "", <<>>, "none")
    /\ UNCHANGED <<treatmentsFile, treatments_dict, entry_name, entry_phone,
                   patient_type_var, selected_treatments,
                   treatment_price_vars, text_prescription, text_output,
                   patient, generated>>
    /\ UNCHANGED <<apptVars, otherVars>>

\* the user edits the price entry of the selected line t_name
TypePrice(t_name, text) ==
    /\ t_name \in DOMAIN treatment_price_vars
    /\ treatment_price_vars' = [treatment_price_vars EXCEPT ![t_name] = text]
    /\ last' = DidMain("price", "", Entry(t_name, text.value), "none")
    /\ UNCHANGED <<treatmentsFile, treatments_dict, entry_name, entry_phone,
                   patient_type_var, vip_discount_var, selected_treatments,
                   text_prescription, text_output, patient, generated>>
    /\ UNCHANGED <<apptVars, otherVars>>

\* the user edits the prescription box
TypePrescription(text) ==
    /\ text_prescription' = text
    /\ last' = DidMain("type", "", <<>>, "none")
    /\ UNCHANGED <<treatmentsFile, treatments_dict, entry_name, entry_phone,
                   patient_type_var, vip_discount_var, selected_treatments,
                   treatment_price_vars, text_output, patient, generated>>
    /\ UNCHANGED <<apptVars, otherVars>>

\* add_selected_treatments: "Add Selected Treatment(s)" with the rows
\* `rows` of the treatment listbox selected
AddSelectedTreatments(rows) ==
    LET box == treatment_listbox_of(treatments_dict)
    IN  /\ rows \subseteq 1..Len(box)
        /\ IF rows = {}
           THEN /\ last' = DidMain("select",
                                   "Please select at least one treatment.",
                                   <<>>, "none")
                /\ UNCHANGED <<selected_treatments, treatment_price_vars>>
           ELSE LET selected == add_rows(selected_treatments, box,
                                         ascending(rows))
                IN  /\ selected_treatments' = selected
                    /\ treatment_price_vars' =
                           price_vars_of(selected, treatments_dict)
                    /\ last' = DidMain("select", "", <<>>, "none")
        /\ UNCHANGED <<treatmentsFile, treatments_dict, entry_name,
                       entry_phone, patient_type_var, vip_discount_var,
                       text_prescription, text_output, patient, generated>>
        /\ UNCHANGED <<apptVars, otherVars>>

\* add_new_treatment: "Add New Treatment", with the answers to its two
\* dialogs
AddNewTreatment(answer, price, io) ==
    LET new_name == strip(answer)
    IN  /\ IF new_name = <<>>
           THEN /\ last' = DidMain("add", "", Entry(new_name, 0), "none")
                /\ UNCHANGED <<treatmentsFile, treatments_dict>>
           ELSE IF new_name \in Keys(treatments_dict)
           THEN /\ last' = DidMain("add", "Treatment already exists.",
                                   Entry(new_name, 0), "none")
                /\ UNCHANGED <<treatmentsFile, treatments_dict>>
           ELSE IF ~price.int
           THEN /\ last' = DidMain("add", "", Entry(new_name, 0), "none")
                /\ UNCHANGED <<treatmentsFile, treatments_dict>>
           ELSE LET dict == Append(treatments_dict,
                                   Entry(new_name, price.value))
                    file == save_treatments(dict, io)
                IN  /\ Len(dict) <= MaxTreatments
                    /\ treatments_dict' = dict
                    /\ treatmentsFile' = file
                    /\ last' = [DidMain("add", "Success",
                                        Entry(new_name, price.value), io)
                                   EXCEPT !.lost =
                                       dropped(treatmentsFile, file, <<>>)]
        /\ UNCHANGED <<entry_name, entry_phone, patient_type_var,
                       vip_discount_var, selected_treatments,
                       treatment_price_vars, text_prescription, text_output,
                       patient, generated>>
        /\ UNCHANGED <<apptVars, otherVars>>

\* remove_treatment and its on_remove: "Remove Treatment", then "Remove"
\* with the rows `rows` of the popup's list of keys selected
RemoveTreatment(rows, io) ==
    /\ rows \subseteq 1..Len(treatments_dict)
    /\ IF treatments_dict = <<>>
       THEN /\ last' = DidMain("remove", "No treatments available to remove.",
                               <<>>, "none")
            /\ UNCHANGED <<treatmentsFile, treatments_dict,
                           selected_treatments, treatment_price_vars>>
       ELSE IF rows = {}
       THEN /\ last' = DidMain("remove",
                         "Please select at least one treatment to remove.",
                         <<>>, "none")
            /\ UNCHANGED <<treatmentsFile, treatments_dict,
                           selected_treatments, treatment_price_vars>>
       ELSE LET names == [i \in 1..Cardinality(rows) |->
                             treatments_dict[ascending(rows)[i]].name]
                dict     == remove_keys(treatments_dict, names)
                selected == remove_names(selected_treatments, names)
            IN  /\ treatments_dict' = dict
                /\ selected_treatments' = selected
                /\ treatmentsFile' = save_treatments(dict, io)
                /\ treatment_price_vars' = price_vars_of(selected, dict)
                /\ last' = [DidMain("remove", "", names, io)
                               EXCEPT !.lost =
                                   dropped(treatmentsFile,
                                           save_treatments(dict, io), names)]
    /\ UNCHANGED <<entry_name, entry_phone, patient_type_var,
                   vip_discount_var, text_prescription, text_output, patient,
                   generated>>
    /\ UNCHANGED <<apptVars, otherVars>>

\* generate_bill_prescription: "Generate Bill & Prescription".  `continue`
\* is the answer to "Phone number looks unusual. Continue anyway?", io how
\* the write of the dated record file ends.  "TclError" is the exception
\* of IntVar.get(), which leaves the handler where it is raised.
GenerateBillPrescription(continue, io) ==
    LET name  == strip(entry_name)
        phone == strip(entry_phone)
        patient_type == patient_type_var
        vip_discount == IF patient_type # "VIP" THEN 0
                        ELSE vip_discount_var.value
        built == Patient(name, phone, patient_type, vip_discount)
        costs == read_prices(selected_treatments, treatment_price_vars)
        done  == [built EXCEPT !.treatments = costs,
                               !.prescription = strip(text_prescription)]
    IN  /\ IF ~vip_discount_var.int
           THEN /\ last' = DidMain("generate", "TclError", <<>>, "none")
                /\ UNCHANGED <<patient, text_output, generated>>
           ELSE IF name = <<>> \/ phone = <<>>
           THEN /\ last' = DidMain("generate",
                             "Please enter patient name and phone number.",
                             <<>>, "none")
                /\ UNCHANGED <<patient, text_output, generated>>
           ELSE IF ~phone_ok(phone) /\ ~continue
           THEN /\ last' = DidMain("generate", "Phone format", <<>>, "none")
                /\ UNCHANGED <<patient, text_output, generated>>
           ELSE IF selected_treatments = <<>>
           THEN /\ last' = DidMain("generate",
                             "Please select at least one treatment.",
                             <<>>, "none")
                /\ UNCHANGED <<patient, text_output, generated>>
           ELSE IF patient_type = "VIP"
                   /\ ~(0 <= vip_discount /\ vip_discount <= 100)
           THEN /\ last' = DidMain("generate",
                             "VIP discount must be between 0 and 100.",
                             <<>>, "none")
                /\ UNCHANGED <<patient, text_output, generated>>
           ELSE IF Len(costs) < Len(selected_treatments)
           THEN /\ patient' = [built EXCEPT !.treatments = costs]
                /\ last' = DidMain("generate", "TclError", <<>>, "none")
                /\ UNCHANGED <<text_output, generated>>
           ELSE /\ patient' = done
                /\ text_output' = combined_text(done)
                /\ generated' = TRUE
                /\ last' = DidMain("generate", "generated",
                                   combined_text(done), io)
        /\ UNCHANGED <<treatmentsFile, treatments_dict, entry_name,
                       entry_phone, patient_type_var, vip_discount_var,
                       selected_treatments, treatment_price_vars,
                       text_prescription>>
        /\ UNCHANGED <<apptVars, otherVars>>

\* print_bill_and_prescription: "Print Bill & Prescription"
PrintBillAndPrescription(outcome) ==
    /\ IF ~patient.set
       THEN last' = DidMain("print",
                  "Generate bill and prescription first before printing.",
                  <<>>, "none")
       ELSE last' = DidMain("print", outcome, combined_text(patient),
                            "handed")
    /\ UNCHANGED billVars
    /\ UNCHANGED <<apptVars, otherVars>>

\* save_to_txt: "Save Bill & Prescription to TXT"
SaveToTxt(io) ==
    /\ IF ~patient.set
       THEN last' = DidMain("save",
                  "Generate bill and prescription first before saving.",
                  <<>>, "none")
       ELSE last' = DidMain("save",
                            IF io = "ok" THEN "Success" ELSE "Save Error",
                            combined_text(patient), io)
    /\ UNCHANGED billVars
    /\ UNCHANGED <<apptVars, otherVars>>

\* reset_all: "Reset"
ResetAll ==
    /\ entry_name' = <<>>
    /\ entry_phone' = <<>>
    /\ patient_type_var' = "Normal"
    /\ vip_discount_var' = IntText(10)
    /\ text_prescription' = <<>>
    /\ text_output' = EmptyText
    /\ selected_treatments' = <<>>
    /\ treatment_price_vars' = price_vars_of(<<>>, treatments_dict)
    /\ patient' = NoPatient
    /\ generated' = FALSE
    /\ last' = DidMain("reset", "", <<>>, "none")
    /\ UNCHANGED <<treatmentsFile, treatments_dict>>
    /\ UNCHANGED <<apptVars, otherVars>>

\* root.quit and a new launch: ClinicApp.__init__ on the files as they are
Relaunch(io) ==
    /\ treatments_dict' = load_treatments_of(treatmentsFile)
    /\ treatmentsFile' =
           IF load_treatments_of(treatmentsFile) = <<>>
           THEN save_treatments(<<>>, io)
           ELSE treatmentsFile
    /\ entry_name' = <<>>
    /\ entry_phone' = <<>>
    /\ patient_type_var' = "Normal"
    /\ vip_discount_var' = IntText(10)
    /\ selected_treatments' = <<>>
    /\ treatment_price_vars' = price_vars_of(<<>>, <<>>)
    /\ text_prescription' = <<>>
    /\ text_output' = EmptyText
    /\ patient' = NoPatient
    /\ generated' = FALSE
    /\ last' = DidMain("start", "", <<>>, io)
    /\ UNCHANGED <<apptVars, otherVars>>

\* A second instance of the program is launched on the same
\* treatments.json: its __init__ loads the catalog into its own dict
OtherInstanceLaunch(io) ==
    LET dict == load_treatments_of(treatmentsFile)
    IN  /\ ~other_treatments_dict.running
        /\ other_treatments_dict' = [running |-> TRUE, dict |-> dict]
        /\ IF dict = <<>>
           THEN /\ treatmentsFile' = save_treatments(<<>>, io)
                /\ last' = DidMain("other_start", "", <<>>, io)
           ELSE /\ UNCHANGED treatmentsFile
                /\ last' = DidMain("other_start", "", <<>>, "none")
        /\ UNCHANGED <<treatments_dict, entry_name, entry_phone,
                       patient_type_var, vip_discount_var,
                       selected_treatments, treatment_price_vars,
                       text_prescription, text_output, patient, generated>>
        /\ UNCHANGED <<apptVars, other_appointments>>

\* add_new_treatment in the second instance, on its own dict
OtherInstanceAdd(answer, price, io) ==
    LET new_name == strip(answer)
        theirs   == other_treatments_dict.dict
    IN  /\ other_treatments_dict.running
        /\ IF new_name = <<>>
           THEN /\ last' = DidMain("other_add", "", Entry(new_name, 0),
                                   "none")
                /\ UNCHANGED <<treatmentsFile, other_treatments_dict>>
           ELSE IF new_name \in Keys(theirs)
           THEN /\ last' = DidMain("other_add", "Treatment already exists.",
                                   Entry(new_name, 0), "none")
                /\ UNCHANGED <<treatmentsFile, other_treatments_dict>>
           ELSE IF ~price.int
           THEN /\ last' = DidMain("other_add", "", Entry(new_name, 0),
                                   "none")
                /\ UNCHANGED <<treatmentsFile, other_treatments_dict>>
           ELSE LET dict == Append(theirs, Entry(new_name, price.value))
                    file == save_treatments(dict, io)
                IN  /\ Len(dict) <= MaxTreatments
                    /\ other_treatments_dict' =
                           [running |-> TRUE, dict |-> dict]
                    /\ treatmentsFile' = file
                    /\ last' = [DidMain("other_add", "Success",
                                        Entry(new_name, price.value), io)
                                   EXCEPT !.lost =
                                       dropped(treatmentsFile, file, <<>>)]
        /\ UNCHANGED <<treatments_dict, entry_name, entry_phone,
                       patient_type_var, vip_discount_var,
                       selected_treatments, treatment_price_vars,
                       text_prescription, text_output, patient, generated>>
        /\ UNCHANGED <<apptVars, other_appointments>>

-----------------------------------------------------------------------------
(* Initial states: the program after ClinicApp.__init__ *)

\* the widgets and fields of a fresh main window
SessionStart ==
    /\ entry_name = <<>>
    /\ entry_phone = <<>>
    /\ patient_type_var = "Normal"
    /\ vip_discount_var = IntText(10)
    /\ selected_treatments = <<>>
    /\ treatment_price_vars = price_vars_of(<<>>, <<>>)
    /\ text_prescription = <<>>
    /\ text_output = EmptyText
    /\ patient = NoPatient
    /\ generated = FALSE

\* __init__ on the catalog file `file`: the dict is loaded; an empty dict
\* is written back at once, and that write ends as io says
CatalogStart(file, io) ==
    /\ treatments_dict = load_treatments_of(file)
    /\ treatmentsFile =
           IF load_treatments_of(file) = <<>> /\ io = "ok"
           THEN json_dump_treatments(<<>>)
           ELSE file

\* no appointment popup is open
ViewClosed ==
    /\ viewOpen = FALSE
    /\ upcoming = <<>>
    /\ search_var = <<>>
    /\ listbox = <<>>

\* the second instance is in no handler
OtherIdle ==
    /\ other_appointments = NotLoaded
    /\ other_treatments_dict = NotRunning

\* the catalog files a launch can find
CatalogFiles ==
    {MissingCatalog, CorruptCatalog}
    \cup {json_dump_treatments(d) :
             d \in {x \in CatalogDicts(MaxTreatments) : UniqueKeys(x)}}

\* the appointment files a launch can find
ApptFiles ==
    {MissingFile, CorruptFile}
    \cup {json_dump(l) : l \in ApptLists(MaxAppts)}

\* a catalog file with two treatments
TwoTreatments ==
    json_dump_treatments(<<Entry(NameL, 100), Entry(NameP, 250)>>)

Started == DidMain("start", "", <<>>, "none")

\* a launch with any appointment file and any catalog file
Init ==
    /\ apptFile \in ApptFiles
    /\ ViewClosed
    /\ OtherIdle
    /\ \E file \in CatalogFiles, io \in IoOutcomes : CatalogStart(file, io)
    /\ SessionStart
    /\ last = Started

\* a launch with any appointment file and an empty catalog
InitAppt ==
    /\ apptFile \in ApptFiles
    /\ ViewClosed
    /\ OtherIdle
    /\ CatalogStart(json_dump_treatments(<<>>), "ok")
    /\ SessionStart
    /\ last = Started

\* a launch with any catalog file and no appointment file
InitCatalog ==
    /\ apptFile = MissingFile
    /\ ViewClosed
    /\ OtherIdle
    /\ \E file \in CatalogFiles, io \in IoOutcomes : CatalogStart(file, io)
    /\ SessionStart
    /\ last = Started

\* a launch with a catalog of two treatments and no appointment file
InitSession ==
    /\ apptFile = MissingFile
    /\ ViewClosed
    /\ OtherIdle
    /\ CatalogStart(TwoTreatments, "ok")
    /\ SessionStart
    /\ last = Started

-----------------------------------------------------------------------------
(* Next-state relations *)

\* A handler that attempts no write does not depend on how a write would
\* end: such a step is taken once, with the outcome "ok" as the input.
NoIdleOutcome(io) == last'.io = "none" => io = "ok"

\* the appointment handlers of one running instance
NextAppt ==
    \/ \E b \in BookInputs, io \in IoOutcomes :
          SaveAppointment(b[1], b[2], b[3], io) /\ NoIdleOutcome(io)
    \/ ViewAppointments
    \/ \E text \in SearchInputs : SearchAppointments(text)
    \/ \E index \in 0..Len(listbox), io \in IoOutcomes :
          DeleteSelected(index, io) /\ NoIdleOutcome(io)
    \/ \E index \in 0..Len(listbox), e \in EditInputs, io \in IoOutcomes :
          EditSelected(index, e[1], e[2], io) /\ NoIdleOutcome(io)
    \/ CloseView

\* the view of one instance and its deletes, while a second instance
\* deletes records of the shared file
NextShared ==
    \/ ViewAppointments
    \/ \E text \in SearchInputs : SearchAppointments(text)
    \/ \E index \in 0..Len(listbox), io \in IoOutcomes :
          DeleteSelected(index, io) /\ NoIdleOutcome(io)
    \/ CloseView
    \/ \E a \in StoredAppts, io \in IoOutcomes : OtherInstanceDelete(a, io)

\* the handlers of the main window
NextMain ==
    \/ \E text \in PatientNameInputs : TypeName(text)
    \/ \E text \in PatientPhoneInputs : TypePhone(text)
    \/ \E t \in {"Normal", "VIP"} : ChoosePatientType(t)
    \/ \E text \in DiscountInputs : TypeDiscount(text)
    \/ \E t \in DOMAIN treatment_price_vars, text \in PriceInputs :
          TypePrice(t, text)
    \/ \E text \in PrescriptionInputs : TypePrescription(text)
    \/ \E rows \in SUBSET (1..Len(treatments_dict)) :
          AddSelectedTreatments(rows)
    \/ \E answer \in TreatmentNameInputs, price \in PriceAnswers,
          io \in IoOutcomes :
              AddNewTreatment(answer, price, io) /\ NoIdleOutcome(io)
    \/ \E rows \in SUBSET (1..Len(treatments_dict)), io \in IoOutcomes :
          RemoveTreatment(rows, io) /\ NoIdleOutcome(io)
    \/ \E continue \in BOOLEAN, io \in WriteOutcomes :
          GenerateBillPrescription(continue, io)
    \/ \E outcome \in PrintOutcomes : PrintBillAndPrescription(outcome)
    \/ \E io \in WriteOutcomes : SaveToTxt(io)
    \/ ResetAll
    \/ \E io \in IoOutcomes : Relaunch(io)

\* every handler, with every input above
Next == NextAppt \/ NextMain

\* the bill session on a fixed catalog: what is typed is a blank or a
\* filled name, a usual or an unusual phone, a discount out of range or
\* no integer, a price that is no integer
NextSession ==
    \/ \E text \in PatientNameInputs : TypeName(text)
    \/ \E text \in PatientPhoneInputs : TypePhone(text)
    \/ \E t \in {"Normal", "VIP"} : ChoosePatientType(t)
    \/ \E text \in {IntText(101), BadText} : TypeDiscount(text)
    \/ \E t \in DOMAIN treatment_price_vars : TypePrice(t, BadText)
    \/ \E rows \in SUBSET (1..Len(treatments_dict)) :
          AddSelectedTreatments(rows)
    \/ \E continue \in BOOLEAN, io \in WriteOutcomes :
          GenerateBillPrescription(continue, io)
    \/ \E outcome \in PrintOutcomes : PrintBillAndPrescription(outcome)
    \/ \E io \in WriteOutcomes : SaveToTxt(io)
    \/ ResetAll

\* the bills of one patient on a fixed catalog: the patient type, integer
\* discounts and integer prices vary
NextBill ==
    \/ TypeName(<<"A", "n">>)
    \/ TypePhone(<<"5", "5", "5", "5", "5", "5">>)
    \/ \E t \in {"Normal", "VIP"} : ChoosePatientType(t)
    \/ \E text \in {IntText(0), IntText(10)} : TypeDiscount(text)
    \/ \E t \in DOMAIN treatment_price_vars,
          text \in {IntText(0), IntText(-300)} : TypePrice(t, text)
    \/ \E text \in PrescriptionInputs : TypePrescription(text)
    \/ \E rows \in SUBSET (1..Len(treatments_dict)) :
          AddSelectedTreatments(rows)
    \/ \E io \in WriteOutcomes : GenerateBillPrescription(TRUE, io)
    \/ ResetAll

\* the catalog and the selection made from it
NextCatalog ==
    \/ \E answer \in TreatmentNameInputs, price \in PriceAnswers,
          io \in IoOutcomes :
              AddNewTreatment(answer, price, io) /\ NoIdleOutcome(io)
    \/ \E rows \in SUBSET (1..Len(treatments_dict)), io \in IoOutcomes :
          RemoveTreatment(rows, io) /\ NoIdleOutcome(io)
    \/ \E rows \in SUBSET (1..Len(treatments_dict)) :
          AddSelectedTreatments(rows)
    \/ \E t \in DOMAIN treatment_price_vars : TypePrice(t, IntText(0))
    \/ ResetAll
    \/ \E io \in IoOutcomes : Relaunch(io)

\* the catalog alone: its dict and treatments.json
NextStore ==
    \/ \E answer \in TreatmentNameInputs, price \in PriceAnswers,
          io \in IoOutcomes :
              AddNewTreatment(answer, price, io) /\ NoIdleOutcome(io)
    \/ \E rows \in SUBSET (1..Len(treatments_dict)), io \in IoOutcomes :
          RemoveTreatment(rows, io) /\ NoIdleOutcome(io)
    \/ \E io \in IoOutcomes : Relaunch(io)

\* the whole program
Spec == Init /\ [][Next]_vars

\* the specifications the properties are checked under: each is the
\* program restricted to the handlers and the inputs named above
SpecAppt == InitAppt /\ [][NextAppt]_vars

SpecShared == InitAppt /\ [][NextShared]_vars

SpecSession == InitSession /\ [][NextSession]_vars

SpecBill == InitSession /\ [][NextBill]_vars

SpecCatalog == InitCatalog /\ [][NextCatalog]_vars

SpecStore == InitCatalog /\ [][NextStore]_vars

\* two instances on one catalog file and one appointment file, both new:
\* each adds a treatment of its own, this one books, views, deletes and
\* edits while the other books
InitTwo ==
    /\ apptFile = MissingFile
    /\ ViewClosed
    /\ OtherIdle
    /\ CatalogStart(MissingCatalog, "ok")
    /\ SessionStart
    /\ last = Started

NextTwo ==
    \/ \E io \in IoOutcomes :
          AddNewTreatment(<<" ", "L">>, IntText(100), io) /\ NoIdleOutcome(io)
    \/ OtherInstanceLaunch("ok")
    \/ \E io \in IoOutcomes :
          OtherInstanceAdd(NameP, IntText(250), io) /\ NoIdleOutcome(io)
    \/ SaveAppointment(<<"A", "n">>, <<"5", "5">>, DateToday, "ok")
    \/ ViewAppointments
    \/ \E index \in 1..Len(listbox) : DeleteSelected(index, "ok")
    \/ \E index \in 1..Len(listbox) :
          EditSelected(index, DateTenth, <<>>, "ok")
    \/ CloseView
    \/ OtherInstanceLoad
    \/ \E io \in IoOutcomes :
          OtherInstanceSave(Appt(<<"B", "o">>, <<"5", "A">>, DateToday), io)

SpecTwo == InitTwo /\ [][NextTwo]_vars

-----------------------------------------------------------------------------
(* Properties *)

\* the dates of the inputs that lie before Today
PastDates == {DatePast, DateLastYear}

\* C1: when the Book button or an edit of a selected row is given a date
\* before today, the handler answers with an input error (the past-date
\* message, or the fill-all-fields message of a booking that also lacks a
\* field) and appointments.json is after the step what it was before.
C1_PastDateRejected ==
    [][(last'.op \in {"book", "edit"} /\ last'.date \in PastDates)
        => /\ last'.msg \in {"Appointment date cannot be in the past.",
                             "Please fill all fields."}
           /\ last'.io = "none"
           /\ apptFile' = apptFile]_vars

\* an edit of a listed record answered with a date of last year, rejected
\* while the file holds records
C1_Witness ==
    /\ last.op = "edit"
    /\ last.date = DateLastYear
    /\ last.target # NoAppt
    /\ last.msg = "Appointment date cannot be in the past."
    /\ load_appointments # <<>>

\* a booking with a date of last year, rejected
C1_WitnessBook ==
    /\ last.op = "book"
    /\ last.date = DateLastYear
    /\ last.msg = "Appointment date cannot be in the past."

\* C2: a Print or Save click in a session that is not Generated (no
\* generate has succeeded since the launch or the last reset) shows the
\* generate-first error and hands no text to the printer or to a file;
\* in a Generated session it hands the text over.
C2_PrintSaveOnlyWhenGenerated ==
    [][last'.op \in {"print", "save"}
       => IF generated
          THEN last'.io # "none" /\ last'.arg = text_output
          ELSE /\ last'.io = "none"
               /\ last'.arg = <<>>
               /\ last'.msg \in
                     {"Generate bill and prescription first before printing.",
                      "Generate bill and prescription first before saving."}
      ]_vars

\* a Print click that hands text to the printer in a session in which no
\* generate has succeeded
C2_Witness ==
    /\ ~generated
    /\ text_output = EmptyText
    /\ last.op = "print"
    /\ last.io = "handed"

\* the four conditions of a generate, on the fields as they are
GenerateConditions ==
    /\ strip(entry_name) # <<>>
    /\ strip(entry_phone) # <<>>
    /\ selected_treatments # <<>>
    /\ patient_type_var = "VIP"
          => /\ vip_discount_var.int
             /\ 0 <= vip_discount_var.value
             /\ vip_discount_var.value <= 100

\* the messages of generate's input errors
GenerateErrors ==
    {"Please enter patient name and phone number.",
     "Please select at least one treatment.",
     "VIP discount must be between 0 and 100."}

\* C3: a Generate click succeeds only when the four conditions hold; when
\* they do not hold it answers with an input error; and whenever it does
\* not succeed the session is left as it was (the Patient, the output and
\* every field) and no record file is written.
C3_GenerateFailsUnchanged ==
    [][last'.op = "generate"
       => /\ last'.msg = "generated" => GenerateConditions /\ generated'
          /\ ~GenerateConditions => last'.msg \in GenerateErrors
          /\ last'.msg # "generated"
                => UNCHANGED billVars /\ last'.io = "none"
      ]_vars

\* a Generate click that failed on the text of a price entry and left a
\* Patient behind in a session that had none
C3_Witness ==
    /\ last.op = "generate"
    /\ last.msg = "TclError"
    /\ GenerateConditions
    /\ patient.set
    /\ ~generated

\* the calendar date a stored record is for
date_of(a) == strptime(a.date)

\* C4: while the view is open, no record of the upcoming list (and so no
\* row of the listbox) is for a day before today, and the records stand
\* in non-decreasing order of their dates.
C4_UpcomingFutureSorted ==
    viewOpen =>
        /\ \A i \in 1..Len(upcoming) :
               /\ date_of(upcoming[i]) # NoDate
               /\ ~date_lt(date_of(upcoming[i]), Today)
        /\ \A i, j \in 1..Len(upcoming) :
               i < j => ~date_lt(date_of(upcoming[j]), date_of(upcoming[i]))
        /\ \A i, j \in 1..Len(listbox) :
               i < j => ~date_lt(date_of(listbox[j]), date_of(listbox[i]))

\* the open view lists a record of the 10th above a record of the 2nd
C4_Witness ==
    /\ viewOpen
    /\ Len(listbox) = 2
    /\ listbox[1].date = DateTenth
    /\ listbox[2].date = DateToday
    /\ last.op = "edit"

\* the lines of a bill with the given label
lines_of(bill, label) == SelectSeq(bill, LAMBDA l : l.label = label)

\* the sum of the amounts of the lines, in rupees
RECURSIVE sum_amounts(_)
sum_amounts(lines) ==
    IF lines = <<>> THEN 0
    ELSE lines[Len(lines)].amount + sum_amounts(SubSeq(lines, 1, Len(lines) - 1))

\* the step is a Generate click that succeeded
Generated == last'.op = "generate" /\ last'.msg = "generated"

\* C5: in the bill a successful generate shows, the treatment lines carry
\* the prices of the price entries, the Subtotal line (when shown) is their
\* sum, the VIP Discount line (when shown) is minus sum * discount / 100,
\* and the Total Bill is sum - sum * discount / 100 for a VIP patient and
\* the sum for a Normal patient, whatever the discount entry holds
\* (amounts with two decimals are counted in hundredths).
C5_BillArithmetic ==
    [][Generated =>
         LET bill     == text_output'.bill
             lines    == lines_of(bill, "treatment")
             subtotal == sum_amounts(lines)
             d        == vip_discount_var.value
             due      == lines_of(bill, "Total Bill")
         IN  /\ Len(lines) = Len(selected_treatments)
             /\ \A i \in 1..Len(lines) :
                    /\ lines[i].name = selected_treatments[i]
                    /\ lines[i].amount =
                           treatment_price_vars[selected_treatments[i]].value
             /\ \A i \in 1..Len(bill) :
                    /\ bill[i].label = "Subtotal"
                          => bill[i].amount = 100 * subtotal
                    /\ bill[i].label = "VIP Discount"
                          => bill[i].amount = -(subtotal * d) /\ bill[i].pct = d
             /\ Len(due) = 1
             /\ bill[Len(bill)] = due[1]
             /\ due[1].amount =
                    IF patient_type_var = "VIP"
                    THEN 100 * subtotal - subtotal * d
                    ELSE 100 * subtotal
      ]_vars

\* the bill of a VIP patient at 10% with the lines 100 and 250: subtotal
\* 350.00, discount -35.00, total 315.00
C5_Witness ==
    /\ generated
    /\ last.op = "generate"
    /\ patient_type_var = "VIP"
    /\ vip_discount_var = IntText(10)
    /\ text_output.bill =
          <<Line("treatment", NameL, 0, 100),
            Line("treatment", NameP, 0, 250),
            Line("Subtotal", <<>>, 0, 35000),
            Line("VIP Discount", <<>>, 10, -3500),
            Line("Total Bill", <<>>, 0, 31500)>>

\* the bill of a Normal patient with the lines 100 and 250 while the
\* discount entry holds 10: total 350.00
C5_WitnessNormal ==
    /\ generated
    /\ last.op = "generate"
    /\ patient_type_var = "Normal"
    /\ vip_discount_var = IntText(10)
    /\ text_output.bill =
          <<Line("treatment", NameL, 0, 100),
            Line("treatment", NameP, 0, 250),
            Line("Total Bill", <<>>, 0, 35000)>>

\* the bill a successful generate shows has the Subtotal line and the VIP
\* Discount line
ShowsDiscountLines ==
    /\ Len(lines_of(text_output'.bill, "Subtotal")) = 1
    /\ Len(lines_of(text_output'.bill, "VIP Discount")) = 1

\* ... and has neither of the two
ShowsNoDiscountLine ==
    /\ lines_of(text_output'.bill, "Subtotal") = <<>>
    /\ lines_of(text_output'.bill, "VIP Discount") = <<>>

\* C6 as stated: the bill has the Subtotal and VIP Discount lines if the
\* patient is VIP and the discount percentage is above 0, whatever the
\* prices of the lines are, and has neither of them otherwise.
C6_DiscountLinesIffPercentage ==
    [][Generated =>
         IF patient_type_var = "VIP" /\ vip_discount_var.value > 0
         THEN ShowsDiscountLines
         ELSE ShowsNoDiscountLine
      ]_vars

\* C6, amended: the bill has the Subtotal and VIP Discount lines if the
\* patient is VIP and the discount amount, sum of the line prices * P / 100,
\* is above 0 (P > 0 and a sum above 0), and has neither of them otherwise;
\* a Normal patient's bill never has them.
C6_DiscountLinesIffAmount ==
    [][Generated =>
         LET subtotal == sum_amounts(lines_of(text_output'.bill, "treatment"))
         IN  IF /\ patient_type_var = "VIP"
                /\ vip_discount_var.value > 0
                /\ subtotal > 0
             THEN ShowsDiscountLines
             ELSE ShowsNoDiscountLine
      ]_vars

\* the bill of a VIP patient at 10% whose lines sum to a negative amount:
\* a Total Bill line and no discount lines
C6_Witness ==
    /\ generated
    /\ last.op = "generate"
    /\ patient_type_var = "VIP"
    /\ vip_discount_var = IntText(10)
    /\ text_output.bill =
          <<Line("treatment", NameL, 0, -300),
            Line("treatment", NameP, 0, 250),
            Line("Total Bill", <<>>, 0, -4500)>>

\* the catalog `dict` gives the name n the price p, and no other price
prices(dict, n, p) ==
    /\ \E i \in 1..Len(dict) : dict[i].name = n
    /\ \A i \in 1..Len(dict) : dict[i].name = n => dict[i].price = p

\* the catalog `after` is the catalog `before` with the name n at the price
\* p added: n is new, and every entry of `before` is there unchanged
added(before, after, n, p) ==
    /\ \A i \in 1..Len(before) : before[i].name # n
    /\ prices(after, n, p)
    /\ \A i \in 1..Len(before) : prices(after, before[i].name, before[i].price)
    /\ Len(after) = Len(before) + 1

\* C7: an add whose (trimmed) name is a key of the catalog is refused with
\* "Treatment already exists." and leaves the catalog and treatments.json
\* as they were; an add of a new name with a price (which the price dialog
\* keeps >= 1) inserts the entry, every earlier entry staying as it was,
\* and, when the write of the file succeeds, a load of treatments.json
\* returns the new price for the new name and every earlier entry
\* unchanged; an add that is cancelled changes nothing.
C7_CatalogAdd ==
    [][last'.op = "add" =>
         LET n == last'.arg.name
             p == last'.arg.price
         IN  IF n \in Keys(treatments_dict)
             THEN /\ last'.msg = "Treatment already exists."
                  /\ UNCHANGED <<treatments_dict, treatmentsFile>>
             ELSE IF last'.msg = "Success"
             THEN /\ p >= 1
                  /\ added(treatments_dict, treatments_dict', n, p)
                  /\ last'.io = "ok"
                        => added(treatments_dict,
                                 load_treatments_of(treatmentsFile'), n, p)
                  /\ last'.io # "ok" => treatmentsFile' = treatmentsFile
             ELSE /\ n = <<>> \/ p = 0
                  /\ UNCHANGED <<treatments_dict, treatmentsFile>>
      ]_vars

\* an add of a second treatment whose write succeeded: the file loads to
\* the catalog of both
C7_Witness ==
    /\ last.op = "add"
    /\ last.msg = "Success"
    /\ last.io = "ok"
    /\ Len(treatments_dict) = 2
    /\ last.arg = treatments_dict[2]
    /\ load_treatments_of(treatmentsFile) = treatments_dict

\* an add of a name the catalog has, refused
C7_WitnessDuplicate ==
    /\ last.op = "add"
    /\ last.msg = "Treatment already exists."
    /\ last.arg.name \in Keys(treatments_dict)

\* the list `after` is the list `before` without its element at i
without(before, after, i) ==
    /\ Len(after) = Len(before) - 1
    /\ \A j \in 1..Len(after) :
           after[j] = IF j < i THEN before[j] ELSE before[j + 1]

C8_WitnessNoMatch ==
    /\ last.op = "delete"
    /\ last.msg = "Deleted"
    /\ last.io = "ok"
    /\ last.arg = NoAppt
    /\ load_appointments # <<>>

\* C9: an edit of a listed record with a valid new date (or none) and a
\* new phone (or none), whose write succeeds, leaves in appointments.json
\* the list it found there with the first record (in file order) that has
\* the target's NAME replaced by the merged record (the target's name, the
\* new phone or else the target's, the new date or else the target's);
\* every other record and the number of records are unchanged.
C9_EditFirstByName ==
    [][(last'.op = "edit" /\ last'.msg = "Updated" /\ last'.io = "ok") =>
         LET before == load_appointments_of(apptFile)
             after  == load_appointments_of(apptFile')
             t      == last'.target
             merged == Appt(t.name,
                            IF last'.phone # <<>> THEN last'.phone
                            ELSE t.phone,
                            IF last'.date # <<>> THEN last'.date ELSE t.date)
             hits   == {i \in 1..Len(before) : before[i].name = t.name}
         IN  /\ hits # {}
             /\ Len(after) = Len(before)
             /\ \E i \in hits :
                    /\ \A j \in hits : i <= j
                    /\ after[i] = merged
                    /\ \A j \in 1..Len(before) : j # i => after[j] = before[j]
      ]_vars

\* an edit of the second of two records of one patient, given a new date
\* and a new phone: the file's first record now is the merged record and
\* the edited row's own record is still in the file
C9_Witness ==
    /\ last.op = "edit"
    /\ last.msg = "Updated"
    /\ last.io = "ok"
    /\ last.date = DateTenth
    /\ last.phone = <<"5", "A">>
    /\ last.target = Appt(<<"A", "n">>, <<"5", "5">>, DateToday)
    /\ load_appointments =
          <<Appt(<<"A", "n">>, <<"5", "A">>, DateTenth), last.target>>

\* the record's name contains the query, letter case aside, or its phone
\* contains the query
contains_query(a, query) ==
    str_in(lower(query), lower(a.name)) \/ str_in(query, a.phone)

\* C10: the rows the open view shows for the search text are, in the
\* order of the upcoming list, exactly its records whose name contains the
\* trimmed text case-insensitively or whose phone contains the trimmed
\* text; for a text that is empty after trimming they are the whole list.
C10_SearchNameOrPhone ==
    viewOpen =>
        LET query == strip(search_var)
        IN  listbox = IF query = <<>> THEN upcoming
                      ELSE SelectSeq(upcoming,
                                     LAMBDA a : contains_query(a, query))

\* the search text " A" hides the record of Bo, whose phone is 5A
C10_Witness ==
    /\ viewOpen
    /\ last.op = "search"
    /\ search_var = <<" ", "A">>
    /\ \E i \in 1..Len(upcoming) :
          /\ upcoming[i].phone = <<"5", "A">>
          /\ \A j \in 1..Len(listbox) : listbox[j] # upcoming[i]

\* the items of a catalog file, the records of an appointment file
items_of(file) == Elems(load_treatments_of(file))

records_of(file) == Elems(load_appointments_of(file))

\* C11: with two instances on the same files a lost update is never
\* detected.  Every add of a treatment that writes the catalog, in either
\* instance, reports "Success" and leaves the file holding exactly that
\* instance's own dict, whatever the file held before; every booking of
\* the second instance that writes leaves the file holding the list it
\* had loaded plus its record, whatever was written in between.  The
\* entries the write dropped are those of the file the writer did not hold.
C11_LostUpdateUndetected ==
    [][/\ (last'.op = "add" /\ last'.io = "ok") =>
              /\ last'.msg = "Success"
              /\ items_of(treatmentsFile') = Elems(treatments_dict')
              /\ Elems(last'.lost) =
                     items_of(treatmentsFile) \ Elems(treatments_dict')
       /\ (last'.op = "other_add" /\ last'.io = "ok") =>
              /\ last'.msg = "Success"
              /\ items_of(treatmentsFile') =
                     Elems(other_treatments_dict'.dict)
              /\ Elems(last'.lost) =
                     items_of(treatmentsFile)
                         \ Elems(other_treatments_dict'.dict)
       /\ (last'.op = "other_book" /\ last'.io = "ok") =>
              /\ last'.msg = "Success"
              /\ records_of(apptFile') =
                     Elems(other_appointments.list) \cup {last'.arg}
              /\ Elems(last'.lost) =
                     records_of(apptFile)
                         \ (Elems(other_appointments.list)
                                \cup {last'.arg})
      ]_vars

\* this instance's add has just overwritten, without a word, a treatment
\* the second instance had added and still holds
C11_Witness ==
    /\ last.op = "add"
    /\ last.msg = "Success"
    /\ last.io = "ok"
    /\ last.lost # <<>>
    /\ other_treatments_dict.running
    /\ last.lost[1] \in Elems(other_treatments_dict.dict)
    /\ last.lost[1] \notin items_of(treatmentsFile)

\* the second instance's booking has just overwritten a record that this
\* instance booked, or edited, after the second instance had read the file
C11_WitnessBook ==
    /\ last.op = "other_book"
    /\ last.io = "ok"
    /\ last.lost # <<>>
    /\ last.lost[1] \notin records_of(apptFile)

\* C12: when the write of the catalog file fails during an add or a
\* remove, the state is left unchanged: the in-memory catalog and the
\* selection list after the failed action are what they were before it.
C12_FailedWriteUnchanged ==
    [][(last'.op \in {"add", "remove"} /\ last'.io = "failed") =>
           /\ treatments_dict' = treatments_dict
           /\ selected_treatments' = selected_treatments
           /\ treatmentsFile' = treatmentsFile
      ]_vars

\* an add whose write failed: the new treatment is in the dict, "Success"
\* was shown, and the file does not hold it
C12_Witness ==
    /\ last.op = "add"
    /\ last.io = "failed"
    /\ last.msg = "Success"
    /\ last.arg \in Elems(treatments_dict)
    /\ last.arg \notin items_of(treatmentsFile)

\* a remove whose write failed: the treatment has left the dict, and the
\* file still holds it
C12_WitnessRemove ==
    /\ last.op = "remove"
    /\ last.io = "failed"
    /\ last.arg # <<>>
    /\ last.arg[1] \notin Keys(treatments_dict)
    /\ last.arg[1] \in {e.name : e \in items_of(treatmentsFile)}

\* the selection and its price entries are empty after the step
LinesDestroyed ==
    /\ selected_treatments' = <<>>
    /\ DOMAIN treatment_price_vars' = {}

\* C13 as stated: the selected treatment lines and their per-line prices
\* are empty immediately after a successful generate and immediately after
\* a reset.
C13_LinesDestroyedOnGenerateAndReset ==
    [][(Generated \/ last'.op = "reset") => LinesDestroyed]_vars

\* C13, amended: the selected treatment lines and their per-line prices
\* are empty immediately after a reset; a successful generate leaves the
\* lines, of which there is at least one, and their prices as they were.
C13_LinesDestroyedOnResetOnly ==
    [][/\ last'.op = "reset" => LinesDestroyed
       /\ Generated =>
              /\ selected_treatments' # <<>>
              /\ selected_treatments' = selected_treatments
              /\ treatment_price_vars' = treatment_price_vars
      ]_vars

\* a generate has just succeeded on two lines, one with an overridden
\* price, and both lines are still selected with their prices
C13_Witness ==
    /\ generated
    /\ last.op = "generate"
    /\ last.msg = "generated"
    /\ selected_treatments = <<NameL, NameP>>
    /\ treatment_price_vars[NameL] = IntText(0)
    /\ treatment_price_vars[NameP] = IntText(250)

\* a reset has just emptied the form: no line, no price entry, no patient
C13_WitnessReset ==
    /\ last.op = "reset"
    /\ selected_treatments = <<>>
    /\ DOMAIN treatment_price_vars = {}
    /\ ~generated
    /\ patient = NoPatient

\* the names selected before and after the step
StillSelected == Elems(selected_treatments) \cap Elems(selected_treatments')

\* C14: a per-line price override is independent session state.  The
\* price entry of a line that stays selected is not changed by a selection
\* of further treatments or by a removal of catalog entries, so the edited
\* price is the one the next generate reads; and editing a price entry
\* never changes the catalog or its file.
C14_OverrideIndependent ==
    [][/\ last'.op \in {"select", "remove"} =>
              \A n \in StillSelected :
                  treatment_price_vars'[n] = treatment_price_vars[n]
       /\ last'.op = "price" =>
              /\ treatments_dict' = treatments_dict
              /\ treatmentsFile' = treatmentsFile
      ]_vars

\* the price of the selected line L has just been overridden by 0, the
\* catalog still has L at 100 and holds a second treatment to select
C14_Witness ==
    /\ last.op = "price"
    /\ last.arg = Entry(NameL, 0)
    /\ NameL \in Elems(selected_treatments)
    /\ treatment_price_vars[NameL] = IntText(0)
    /\ dict_get(treatments_dict, NameL, 0) = 100
    /\ Len(treatments_dict) = 2

\* no name occurs twice in the list
NoDuplicates(list) == Cardinality(Elems(list)) = Len(list)

\* the names the step has added to the selection
NewlySelected == Elems(selected_treatments') \ Elems(selected_treatments)

\* C15: after every catalog add, catalog remove, selection and reset the
\* selected list has no duplicate names and every name in it is a key of
\* the current catalog, and the price entry of a line that a selection has
\* added starts at the catalog price of that key; this for every name the
\* catalog can hold, names containing " (" included.
C15_SelectionReferencesCatalog ==
    [][/\ NoDuplicates(selected_treatments')
       /\ Elems(selected_treatments') \subseteq
              {treatments_dict'[i].name : i \in 1..Len(treatments_dict')}
       /\ last'.op = "select" =>
              \A n \in NewlySelected :
                  \E i \in 1..Len(treatments_dict') :
                      /\ treatments_dict'[i].name = n
                      /\ treatment_price_vars'[n] =
                             IntText(treatments_dict'[i].price)
      ]_vars

\* the catalog holds "P (d)" and not "P"; its row has been selected, and
\* the selected line is named "P", which is no key, at the price 0
C15_Witness ==
    /\ last.op = "select"
    /\ NamePDeep \in Keys(treatments_dict)
    /\ NameP \notin Keys(treatments_dict)
    /\ selected_treatments = <<NameP>>
    /\ treatment_price_vars[NameP] = IntText(0)

\* the persisted records that are for today or a later day, in file order
persisted_upcoming ==
    SelectSeq(load_appointments,
              LAMBDA a : /\ date_of(a) # NoDate
                         /\ ~date_lt(date_of(a), Today))

\* the two lists hold the same records, each as many times
same_records(l, m) ==
    \A x \in Elems(l) \cup Elems(m) :
        Len(SelectSeq(l, LAMBDA y : y = x)) =
            Len(SelectSeq(m, LAMBDA y : y = x))

\* C16: while the view is open, the in-memory upcoming list is the
\* date-sorted list of exactly the persisted records that are for today or
\* later: it holds those records and no others, earlier days first.
C16_UpcomingIsPersistedByDate ==
    viewOpen =>
        /\ same_records(upcoming, persisted_upcoming)
        /\ \A i \in 1..(Len(upcoming) - 1) :
               ~date_lt(date_of(upcoming[i + 1]), date_of(upcoming[i]))

\* the view has just been opened on a file with a record for the 2nd and
\* a record for the 10th: the upcoming list holds exactly these two, the
\* 10th first
C16_Witness ==
    /\ viewOpen
    /\ last.op = "view"
    /\ Len(upcoming) = 2
    /\ same_records(upcoming, persisted_upcoming)
    /\ upcoming[1].date = DateTenth
    /\ upcoming[2].date = DateToday

=============================================================================
